---- MODULE Spec2Model ----
(***************************************************************************)
(* Model of shinken/objects/nodesetparse.py: the macro scanner             *)
(* (find_macro), the EXPAND pass (repl_macro_function, expand_repl_func),  *)
(* the object duplicator (duplicate) and the pipeline (process).           *)
(*                                                                         *)
(* Python strings are sequences of one-character strings; indices kept in  *)
(* records are the 0-based indices of the Python code.                     *)
(***************************************************************************)
EXTENDS Integers, Sequences, FiniteSets, TLC

\* ------------------------------------------------------------------------
\* Python string primitives
\* ------------------------------------------------------------------------

Min(a, b) == IF a < b THEN a ELSE b

Max(a, b) == IF a > b THEN a ELSE b

\* The value None of the Python code, where an index is expected.
None == -1

\* value[a:b] for indices a, b >= 0
Slice(value, a, b) ==
  LET lo == Min(Max(a, 0), Len(value))
      hi == Min(Max(b, 0), Len(value))
  IN IF lo >= hi THEN << >> ELSE SubSeq(value, lo + 1, hi)

\* value[a:]
SliceFrom(value, a) == Slice(value, a, Len(value))

\* Characters matched by the regular expression \s
Whitespace == {" ", "\t", "\n"}

IsPrefixAt(sub, value, k) ==
  /\ k + Len(sub) <= Len(value)
  /\ \A n \in 1..Len(sub) : value[k + n] = sub[n]

\* value.find(sub): the lowest 0-based index where sub occurs, -1 if none
Find(value, sub) ==
  LET hits == {k \in 0..Len(value) : IsPrefixAt(sub, value, k)}
  IN IF hits = {} THEN -1 ELSE CHOOSE k \in hits : \A h \in hits : k <= h

\* re.match(pattern, name) for a pattern of literal characters: the pattern
\* has to match at the start of name, not the whole of it
ReMatch(pattern, name) == IsPrefixAt(pattern, name, 0)

\* value.strip()
RECURSIVE LStrip(_)
LStrip(value) ==
  IF value # << >> /\ Head(value) \in Whitespace THEN LStrip(Tail(value)) ELSE value

RECURSIVE RStrip(_)
RStrip(value) ==
  IF value # << >> /\ value[Len(value)] \in Whitespace
  THEN RStrip(SubSeq(value, 1, Len(value) - 1)) ELSE value

Strip(value) == RStrip(LStrip(value))

\* value.split(sep) for a one-character sep
RECURSIVE SplitFrom(_, _, _)
SplitFrom(value, sep, cur) ==
  IF value = << >> THEN << cur >>
  ELSE IF Head(value) = sep THEN << cur >> \o SplitFrom(Tail(value), sep, << >>)
  ELSE SplitFrom(Tail(value), sep, Append(cur, Head(value)))

Split(value, sep) == SplitFrom(value, sep, << >>)

\* sep.join(lst)
RECURSIVE Join(_, _)
Join(lst, sep) ==
  IF lst = << >> THEN << >>
  ELSE IF Len(lst) = 1 THEN lst[1]
  ELSE lst[1] \o sep \o Join(Tail(lst), sep)

EXPAND_MACRO_NAME == << "E", "X", "P", "A", "N", "D" >>

DUPLICATE_MACRO_NAME == << "D", "U", "P", "L", "I", "C", "A", "T", "E" >>

\* ------------------------------------------------------------------------
\* Errors: the exceptions the code raises, under the names of the error
\* kinds they stand for
\* ------------------------------------------------------------------------

NoError == "none"

UnclosedArgumentGroup == "SyntaxError: Unclosed parentheses in macro"

UnexpectedClosingParenthesis == "SyntaxError: Too early closing parenthese"

MultipleArgumentGroups == "SyntaxError: only one block of parentheses is allowed"

MissingTerminatingDollar == "SyntaxError: Macro does not end with a dollar"

InvalidRangeExpression == "NodeSetParseError"

IndexError == "IndexError: list index out of range"

\* ------------------------------------------------------------------------
\* find_macro
\* ------------------------------------------------------------------------

NoArgs == [set |-> FALSE, parens_open |-> None, parens_close |-> None, value |-> << >>]

NoMacro ==
  [err |-> NoError, found |-> FALSE, start_macro |-> None, end_macro |-> None,
   name |-> << >>, args |-> NoArgs, value |-> << >>, end_dollar |-> FALSE]

\* How the for loop of find_macro ends.
ScanEnd(e, end_macro, end_dollar, args) ==
  [err |-> e, end_macro |-> end_macro, end_dollar |-> end_dollar, args |-> args]

\* The for loop of find_macro from index i on: where the macro ends, how,
\* and its argument group.
RECURSIVE ScanMacro(_, _, _, _)
ScanMacro(value, i, opened_parens, args) ==
  IF i >= Len(value) THEN ScanEnd(NoError, Len(value) - 1, FALSE, args)
  ELSE
    CASE value[i + 1] = "(" ->
           IF ~args.set
           THEN ScanMacro(value, i + 1, opened_parens + 1,
                          [set |-> TRUE, parens_open |-> i, parens_close |-> None,
                           value |-> << >>])
           ELSE IF args.parens_close # None
           THEN ScanEnd(MultipleArgumentGroups, None, FALSE, args)
           ELSE ScanMacro(value, i + 1, opened_parens + 1, args)
      [] value[i + 1] = ")" ->
           IF opened_parens > 0
           THEN IF opened_parens - 1 = 0 /\ args.parens_close = None
                THEN ScanMacro(value, i + 1, 0,
                               [args EXCEPT !.parens_close = i,
                                            !.value = Slice(value, args.parens_open + 1, i)])
                ELSE ScanMacro(value, i + 1, opened_parens - 1, args)
           ELSE ScanEnd(UnexpectedClosingParenthesis, None, FALSE, args)
      [] value[i + 1] \in Whitespace /\ opened_parens = 0 ->
           ScanEnd(NoError, i, FALSE, args)
      [] value[i + 1] = "$" /\ opened_parens = 0 ->
           ScanEnd(NoError, i, TRUE, args)
      [] OTHER -> ScanMacro(value, i + 1, opened_parens, args)

\* re.search(r'\$([^($\s]*)', macro_value).group(1)
RECURSIVE NameRun(_)
NameRun(chars) ==
  IF chars = << >> \/ Head(chars) \in ({"(", "$"} \cup Whitespace) THEN << >>
  ELSE << Head(chars) >> \o NameRun(Tail(chars))

MacroName(macro_value) == NameRun(Tail(macro_value))

\* The test of line 117 reading the opening parenthesis for the closing one.
UnclosedWrongKey(args) == args.set /\ args.parens_open = None

\* Lines 115-118: the argument group was opened and never closed.
Unclosed(args) == args.set /\ args.parens_close = None

\* Lines 115-127, sc being what the for loop found.
MacroFound(value, start_macro, sc) ==
  IF sc.err # NoError THEN [NoMacro EXCEPT !.err = sc.err]
  ELSE IF Unclosed(sc.args) THEN [NoMacro EXCEPT !.err = UnclosedArgumentGroup]
  ELSE [err |-> NoError, found |-> TRUE, start_macro |-> start_macro,
        end_macro |-> sc.end_macro,
        name |-> MacroName(Slice(value, start_macro, sc.end_macro + 1)),
        args |-> sc.args,
        value |-> Slice(value, start_macro, sc.end_macro + 1),
        end_dollar |-> sc.end_dollar]

MacroFrom(value, start_macro) ==
  IF start_macro < 0 THEN NoMacro
  ELSE MacroFound(value, start_macro, ScanMacro(value, start_macro + 1, 0, NoArgs))

FindMacro(value) == MacroFrom(value, Find(value, << "$" >>))

\* ------------------------------------------------------------------------
\* split_preserve_range, the node-range expander, expand_repl_func
\* ------------------------------------------------------------------------

AddChar(val_lst, char) == [val_lst EXCEPT ![Len(val_lst)] = Append(@, char)]

RECURSIVE SplitRangeFrom(_, _, _, _)
SplitRangeFrom(value, sep, val_lst, opened_bracket) ==
  IF value = << >> THEN val_lst
  ELSE
    CASE Head(value) = "[" ->
           SplitRangeFrom(Tail(value), sep, AddChar(val_lst, "["), opened_bracket + 1)
      [] Head(value) = "]" ->
           SplitRangeFrom(Tail(value), sep, AddChar(val_lst, "]"), opened_bracket - 1)
      [] Head(value) = sep /\ sep \notin {"[", "]"} /\ opened_bracket = 0 ->
           SplitRangeFrom(Tail(value), sep, Append(val_lst, << >>), opened_bracket)
      [] OTHER ->
           SplitRangeFrom(Tail(value), sep, AddChar(val_lst, Head(value)), opened_bracket)

split_preserve_range(value, sep) == SplitRangeFrom(value, sep, << << >> >>, 0)

Digits == << "0", "1", "2", "3", "4", "5", "6", "7", "8", "9" >>

IsDigit(c) == \E d \in 1..Len(Digits) : Digits[d] = c

DigitValue(c) == (CHOOSE d \in 1..Len(Digits) : Digits[d] = c) - 1

\* One item of a bracketed range list, "d" or "d-d": the indices it names,
\* or the set {None} when it is not a range item.
RangeItem(item) ==
  IF Len(item) = 1 /\ IsDigit(item[1]) THEN {DigitValue(item[1])}
  ELSE IF /\ Len(item) = 3 /\ IsDigit(item[1]) /\ item[2] = "-" /\ IsDigit(item[3])
          /\ DigitValue(item[1]) <= DigitValue(item[3])
  THEN DigitValue(item[1])..DigitValue(item[3])
  ELSE {None}

RangeSets(items) == {RangeItem(items[n]) : n \in 1..Len(items)}

RECURSIVE SortedSeq(_)
SortedSeq(S) ==
  IF S = {} THEN << >>
  ELSE << CHOOSE x \in S : \A y \in S : x <= y >>
         \o SortedSeq(S \ {CHOOSE x \in S : \A y \in S : x <= y})

Nodes(e, nodes) == [err |-> e, nodes |-> nodes]

\* The names head + d + tail for the indices d of idx, in order, and the
\* expansions tail of what follows the bracket.
RangeProduct(head, sets, rest) ==
  IF {None} \in sets \/ rest.err # NoError THEN Nodes(InvalidRangeExpression, << >>)
  ELSE Nodes(NoError,
             [n \in 1..(Cardinality(UNION sets) * Len(rest.nodes)) |->
                head \o << Digits[SortedSeq(UNION sets)[((n - 1) \div Len(rest.nodes)) + 1] + 1] >>
                     \o rest.nodes[((n - 1) % Len(rest.nodes)) + 1]])

\* The node-range expander on a token: a the index of its first "[", z of
\* its first "]".
RECURSIVE ExpandRange(_)
ExpandBracket(token, a, z) ==
  IF a < 0
  THEN IF z >= 0 THEN Nodes(InvalidRangeExpression, << >>) ELSE Nodes(NoError, << token >>)
  ELSE IF z < a THEN Nodes(InvalidRangeExpression, << >>)
  ELSE RangeProduct(Slice(token, 0, a), RangeSets(Split(Slice(token, a + 1, z), ",")),
                    ExpandRange(SliceFrom(token, z + 1)))

ExpandRange(token) == ExpandBracket(token, Find(token, << "[" >>), Find(token, << "]" >>))

\* [node for node in NodeSet(val)]
NodeSet(val) == IF val = << >> THEN Nodes(NoError, << >>) ELSE ExpandRange(val)

ConcatNodes(first, more) ==
  IF more.err # NoError THEN more ELSE Nodes(NoError, first.nodes \o more.nodes)

\* Lines 217-219
RECURSIVE ExtendNodes(_)
ExtendMore(first, value_tmp) ==
  IF first.err # NoError THEN first ELSE ConcatNodes(first, ExtendNodes(value_tmp))

ExtendNodes(value_tmp) ==
  IF value_tmp = << >> THEN Nodes(NoError, << >>)
  ELSE ExtendMore(NodeSet(Head(value_tmp)), Tail(value_tmp))

Result(e, val) == [err |-> e, val |-> val]

\* Line 221
JoinNodes(val_tmp, sep) ==
  IF val_tmp.err # NoError THEN Result(val_tmp.err, << >>)
  ELSE Result(NoError, Join(val_tmp.nodes, sep))

expand_repl_func(value, args) ==
  JoinNodes(ExtendNodes(split_preserve_range(value, ",")),
            IF Len(args) > 0 THEN args[1] ELSE << "," >>)

\* ------------------------------------------------------------------------
\* repl_macro_function, expand
\* ------------------------------------------------------------------------

\* The test of line 150: the macro is not one repl_macro_function replaces.
NotInterested(macro, macro_name) ==
  ~macro.args.set \/ ~ReMatch(macro_name, macro.name)

\* The text copied in front of a replaced macro (line 159).
PrecedingText(value, start, macro) == Slice(value, start, macro.start_macro)

\* The text copied for a macro that is passed over (line 152).
PassedOver(value, start, macro) == Slice(value, start, start + macro.end_macro + 1)

\* The while loop of repl_macro_function with rep_func = expand_repl_func.
RECURSIVE ReplLoop(_, _, _, _, _, _)
\* Lines 159-171, rep being what rep_func returned.
ReplApply(value, macro_name, ends_with_dollar, args, start, val, macro, rep) ==
  IF rep.err # NoError THEN Result(rep.err, val)
  ELSE ReplLoop(value, macro_name, ends_with_dollar, args, start + macro.end_macro + 1,
                val \o PrecedingText(value, start, macro) \o rep.val)

\* Lines 146-171, macro being what find_macro(value[start:]) returned.
ReplMacro(value, macro_name, ends_with_dollar, args, start, val, macro) ==
  IF macro.err # NoError THEN Result(macro.err, val)
  ELSE IF ~macro.found THEN Result(NoError, val \o SliceFrom(value, start))
  ELSE IF NotInterested(macro, macro_name)
  THEN ReplLoop(value, macro_name, ends_with_dollar, args, start + macro.end_macro + 1,
                val \o PassedOver(value, start, macro))
  ELSE IF ends_with_dollar /\ ~macro.end_dollar THEN Result(MissingTerminatingDollar, val)
  ELSE ReplApply(value, macro_name, ends_with_dollar, args, start, val, macro,
                 expand_repl_func(macro.args.value, args))

ReplLoop(value, macro_name, ends_with_dollar, args, start, val) ==
  IF start >= Len(value) THEN Result(NoError, val)
  ELSE ReplMacro(value, macro_name, ends_with_dollar, args, start, val,
                 FindMacro(SliceFrom(value, start)))

repl_macro_function(value, macro_name, ends_with_dollar, args) ==
  ReplLoop(value, macro_name, ends_with_dollar, args, 0, << >>)

expand(value) == repl_macro_function(value, EXPAND_MACRO_NAME, TRUE, << << "," >> >>)

\* is_empty with re.search(r'\s', value) for its test: any whitespace makes
\* the value empty.
is_empty_search(value) == \E n \in 1..Len(value) : value[n] \in Whitespace

\* re.match(r'^\s*$', value)
is_empty(value) == \A n \in 1..Len(value) : value[n] \in Whitespace

\* ------------------------------------------------------------------------
\* copy_obj, _append_all, duplicate
\* ------------------------------------------------------------------------

\* A record of the model is a function from property names to lists of
\* strings. copy_obj builds a new dictionary holding a new list per property.
copy_obj(obj) == [prop \in DOMAIN obj |-> obj[prop]]

_append_all(clone_lst, prop, idx, value, reinit) ==
  [n \in 1..Len(clone_lst) |->
     [clone_lst[n] EXCEPT ![prop][idx + 1] = IF reinit THEN << >> ELSE @ \o value]]

\* The loop condition of line 267.
DuplicateAhead(macro, value) ==
  macro.found /\ Find(value, DUPLICATE_MACRO_NAME) > 0

\* The test of lines 275-276.
IsDuplicateMacro(macro) ==
  macro.args.set /\ ReMatch(DUPLICATE_MACRO_NAME, macro.name)

\* Line 281: pfx, what is before the macro.
Pfx(value, start, macro) == Slice(value, start, start + macro.start_macro)

StripAll(chunks) == [n \in 1..Len(chunks) |-> Strip(chunks[n])]

\* Lines 287-289: the literal values of an expanded argument text.
DuplicateValues(arg_value) == StripAll(Split(arg_value, ","))

\* Line 294: the dictionary at index n of the clone list once it has grown.
CloneAt(clone_lst, obj_template, n) ==
  IF n <= Len(clone_lst) THEN clone_lst[n] ELSE copy_obj(obj_template)

\* Lines 305-307: what the template gains from one DUPLICATE macro.
TemplateAfter(obj_template, prop, i, last_value) ==
  [obj_template EXCEPT ![prop][i + 1] = @ \o last_value]

\* Lines 291-307: the clones and the template after one DUPLICATE macro.
ApplyValues(clone_lst, obj_template, prop, i, pfx, values) ==
  [clone_lst |->
     [n \in 1..Max(Len(clone_lst), Len(values)) |->
        [CloneAt(clone_lst, obj_template, n) EXCEPT ![prop][i + 1] =
           @ \o pfx \o values[Min(n, Len(values))]]],
   obj_template |-> TemplateAfter(obj_template, prop, i, pfx \o values[Len(values)])]

\* Lines 268-273: the value is emptied in the template and in the clones.
ReinitClones(clone_lst, prop, i, reinit_once) ==
  IF reinit_once THEN clone_lst ELSE _append_all(clone_lst, prop, i, << >>, TRUE)

ReinitTemplate(obj_template, prop, i, reinit_once) ==
  IF reinit_once THEN obj_template ELSE [obj_template EXCEPT ![prop][i + 1] = << >>]

\* What the while loop of lines 267-315 leaves behind.
LoopEnd(e, clone_lst, obj_template, start, reinit_once) ==
  [err |-> e, clone_lst |-> clone_lst, obj_template |-> obj_template,
   start |-> start, reinit_once |-> reinit_once]

RECURSIVE DuplicateLoop(_, _, _, _, _, _, _, _)
\* Line 315, macro being what find_macro(value[start:]) returned.
DuplicateMoved(clone_lst, obj_template, prop, i, value, start, macro) ==
  IF macro.err # NoError THEN LoopEnd(macro.err, clone_lst, obj_template, start, TRUE)
  ELSE DuplicateLoop(clone_lst, obj_template, prop, i, value, start, macro, TRUE)

\* Lines 313-315
DuplicateNext(clone_lst, obj_template, prop, i, value, start) ==
  DuplicateMoved(clone_lst, obj_template, prop, i, value, start,
                 FindMacro(SliceFrom(value, start)))

DuplicateApplied(ap, prop, i, value, start) ==
  DuplicateNext(ap.clone_lst, ap.obj_template, prop, i, value, start)

\* Lines 284-315, arg being what expand returned for the argument text.
DuplicateExpanded(clone_lst, obj_template, prop, i, value, start, macro, arg) ==
  IF arg.err # NoError THEN LoopEnd(arg.err, clone_lst, obj_template, start, TRUE)
  ELSE DuplicateApplied(ApplyValues(clone_lst, obj_template, prop, i,
                                    Pfx(value, start, macro), DuplicateValues(arg.val)),
                        prop, i, value, start + macro.end_macro + 1)

\* Lines 275-315: one macro of the value, once the value has been emptied.
DuplicateStep(clone_lst, obj_template, prop, i, value, start, macro) ==
  IF IsDuplicateMacro(macro)
  THEN IF ~macro.end_dollar
       THEN LoopEnd(MissingTerminatingDollar, clone_lst, obj_template, start, TRUE)
       ELSE DuplicateExpanded(clone_lst, obj_template, prop, i, value, start, macro,
                              expand(macro.args.value))
  ELSE DuplicateNext(_append_all(clone_lst, prop, i,
                                 Slice(value, start, start + macro.end_macro + 1), FALSE),
                     obj_template, prop, i, value, start + macro.end_macro + 1)

\* The while loop of lines 267-315 for the value obj[prop][i].
DuplicateLoop(clone_lst, obj_template, prop, i, value, start, macro, reinit_once) ==
  IF ~DuplicateAhead(macro, value)
  THEN LoopEnd(NoError, clone_lst, obj_template, start, reinit_once)
  ELSE DuplicateStep(ReinitClones(clone_lst, prop, i, reinit_once),
                     ReinitTemplate(obj_template, prop, i, reinit_once),
                     prop, i, value, start, macro)

Clones(e, clone_lst, obj_template) ==
  [err |-> e, clone_lst |-> clone_lst, obj_template |-> obj_template]

\* Lines 317-320: what is left of the value goes to the clones.
AppendRest(w, prop, i, value) ==
  IF w.err # NoError THEN Clones(w.err, w.clone_lst, w.obj_template)
  ELSE Clones(NoError,
              IF w.reinit_once
              THEN _append_all(w.clone_lst, prop, i, SliceFrom(value, w.start), FALSE)
              ELSE w.clone_lst,
              w.obj_template)

\* Lines 262-320, macro being what find_macro(value) returned.
DuplicateScanned(clone_lst, obj_template, prop, i, value, macro) ==
  IF macro.err # NoError THEN Clones(macro.err, clone_lst, obj_template)
  ELSE AppendRest(DuplicateLoop(clone_lst, obj_template, prop, i, value, 0, macro, FALSE),
                  prop, i, value)

\* The body of the loop of line 261 for one value.
DuplicateValue(obj, clone_lst, obj_template, prop, i) ==
  DuplicateScanned(clone_lst, obj_template, prop, i, obj[prop][i + 1],
                   FindMacro(obj[prop][i + 1]))

\* The loops of lines 260-261 from the value (order[p], i) on.
RECURSIVE DuplicateFrom(_, _, _, _, _, _)
DuplicateOn(obj, order, d, p, i) ==
  IF d.err # NoError THEN d
  ELSE DuplicateFrom(obj, order, d.clone_lst, d.obj_template, p, i)

DuplicateFrom(obj, order, clone_lst, obj_template, p, i) ==
  IF p > Len(order) THEN Clones(NoError, clone_lst, obj_template)
  ELSE IF i >= Len(obj[order[p]])
  THEN DuplicateFrom(obj, order, clone_lst, obj_template, p + 1, 0)
  ELSE DuplicateOn(obj, order, DuplicateValue(obj, clone_lst, obj_template, order[p], i),
                   p, i + 1)

\* duplicate(obj), the dictionary being iterated in the given order: the
\* clones it built, before the test of line 322.
duplicate(obj, order) == DuplicateFrom(obj, order, << >>, copy_obj(obj), 1, 0)

\* ------------------------------------------------------------------------
\* process
\* ------------------------------------------------------------------------

\* del lst[i]
DelAt(lst, i) == SubSeq(lst, 1, i) \o SubSeq(lst, i + 2, Len(lst))

Values_(e, lst) == [err |-> e, lst |-> lst]

\* Lines 31-36: the loop over range(0, n), n being the length of the list
\* when the loop starts, from index i on.
RECURSIVE ExpandValues(_, _, _)
\* Lines 32-36, e being what expand(obj[prop][i]) returned.
ExpandedValue(lst, i, n, e) ==
  IF e.err # NoError THEN Values_(e.err, lst)
  ELSE IF is_empty(e.val) THEN ExpandValues(DelAt(lst, i), i + 1, n)
  ELSE ExpandValues([lst EXCEPT ![i + 1] = e.val], i + 1, n)

ExpandValues(lst, i, n) ==
  IF i >= n THEN Values_(NoError, lst)
  ELSE IF i >= Len(lst) THEN Values_(IndexError, lst)
  ELSE ExpandedValue(lst, i, n, expand(lst[i + 1]))

Expanded(e, obj) == [err |-> e, obj |-> obj]

\* Lines 30-36 for one object, from the property order[p] on.
RECURSIVE ExpandProps(_, _, _)
ExpandedProp(obj, order, p, e) ==
  IF e.err # NoError THEN Expanded(e.err, [obj EXCEPT ![order[p]] = e.lst])
  ELSE ExpandProps([obj EXCEPT ![order[p]] = e.lst], order, p + 1)

ExpandProps(obj, order, p) ==
  IF p > Len(order) THEN Expanded(NoError, obj)
  ELSE ExpandedProp(obj, order, p, ExpandValues(obj[order[p]], 0, Len(obj[order[p]])))

\* ------------------------------------------------------------------------
\* Inputs
\* ------------------------------------------------------------------------

\* A record holds at most MaxValues values in all.
MaxValues == 2

Props == {"name", "address"}

Orders == {<< "name", "address" >>, << "address", "name" >>}

\* The text of the macro-function $DUPLICATE(v1,...,vk)$
DuplicateMacro(values) ==
  << "$" >> \o DUPLICATE_MACRO_NAME \o << "(" >> \o Join(values, << "," >>) \o << ")", "$" >>

\* The text of the macro-function $EXPAND(arg)$
ExpandMacro(arg) == << "$" >> \o EXPAND_MACRO_NAME \o << "(" >> \o arg \o << ")", "$" >>

\* A value made of one DUPLICATE macro-function between a prefix and a suffix.
RenderShape(sh) == sh.pfx \o DuplicateMacro(sh.values) \o sh.sfx

\* 'p$DUPLICATE(a,b,c)$-x'
ShapeDup3 ==
  [pfx |-> << "p" >>,
   values |-> << << "a" >>, << "b" >>, << "c" >> >>,
   sfx |-> << "-", "x" >>]

\* '$DUPLICATE(1,2)$x'
ShapeDup2 ==
  [pfx |-> << >>,
   values |-> << << "1" >>, << "2" >> >>,
   sfx |-> << "x" >>]

\* 'q$FOO$ $DUPLICATE(a,b)$'
ShapeMacroThenDup ==
  [pfx |-> << "q", "$", "F", "O", "O", "$", " " >>,
   values |-> << << "a" >>, << "b" >> >>,
   sfx |-> << >>]

\* '$DUPLICATE(h[1,3])$'
ShapeDupRange ==
  [pfx |-> << >>,
   values |-> << << "h", "[", "1", ",", "3", "]" >> >>,
   sfx |-> << >>]

\* A value made of segments: text copied as it is (kind "text") and
\* EXPAND macro-functions (kind "expand", text being the argument).
RECURSIVE RenderText(_)
RenderText(segs) ==
  IF segs = << >> THEN << >>
  ELSE (IF Head(segs).kind = "expand" THEN ExpandMacro(Head(segs).text)
        ELSE Head(segs).text) \o RenderText(Tail(segs))

\* 'y $FOO$ $EXPAND(a)$ x $EXPAND(b)$z'
TextTwoExpands ==
  << [kind |-> "text", text |-> << "y", " " >>],
     [kind |-> "text", text |-> << "$", "F", "O", "O", "$" >>],
     [kind |-> "text", text |-> << " " >>],
     [kind |-> "expand", text |-> << "a" >>],
     [kind |-> "text", text |-> << " ", "x", " " >>],
     [kind |-> "expand", text |-> << "b" >>],
     [kind |-> "text", text |-> << "z" >>] >>

\* '$EXPAND(h[0-1])$'
TextOneExpand ==
  << [kind |-> "expand", text |-> << "h", "[", "0", "-", "1", "]" >>] >>

\* 'a'
ValPlain ==
  << "a" >>

\* 'b c'
ValWords ==
  << "b", " ", "c" >>

\* ' '
ValBlank ==
  << " " >>

ValExpand == RenderText(TextOneExpand)

ValTwoExpands == RenderText(TextTwoExpands)

\* '$EXPANDED(h[0-1])$'
ValExpanded ==
  << "$", "E", "X", "P", "A", "N", "D", "E", "D", "(", "h", "[", "0", "-", "1", "]", ")", "$" >>

\* '$DUPLICATES(a,b)$'
ValDuplicates ==
  << "$", "D", "U", "P", "L", "I", "C", "A", "T", "E", "S", "(", "a", ",", "b", ")", "$" >>

\* '$EXPAND(h[0-2'
ValUnclosed ==
  << "$", "E", "X", "P", "A", "N", "D", "(", "h", "[", "0", "-", "2" >>

\* '$EXPAND(h[0-2)$'
ValBadRange ==
  << "$", "E", "X", "P", "A", "N", "D", "(", "h", "[", "0", "-", "2", ")", "$" >>

\* '$DUPLICATE(a,b))$'
ValEarlyClose ==
  << "$", "D", "U", "P", "L", "I", "C", "A", "T", "E", "(", "a", ",", "b", ")", ")", "$" >>

ValMacroThenDup == RenderShape(ShapeMacroThenDup)

ValDupRange == RenderShape(ShapeDupRange)

ValDup3 == RenderShape(ShapeDup3)

ValDup2 == RenderShape(ShapeDup2)

\* '$EXPAND(DUPLICATE)$'
ValDupWord ==
  << "$", "E", "X", "P", "A", "N", "D", "(", "D", "U", "P", "L", "I", "C", "A", "T", "E", ")", "$" >>

Values ==
  {ValPlain, ValWords, ValBlank, ValExpand,
   ValTwoExpands, ValExpanded, ValDuplicates, ValUnclosed,
   ValBadRange, ValEarlyClose, ValMacroThenDup, ValDupRange,
   ValDup3, ValDup2, ValDupWord}

RECURSIVE Lists(_)
Lists(n) ==
  IF n = 0 THEN {<< >>}
  ELSE {<< >>} \cup {<< v >> \o l : v \in Values, l \in Lists(n - 1)}

Records ==
  {obj \in [Props -> Lists(MaxValues)] :
     Len(obj["name"]) + Len(obj["address"]) <= MaxValues}

\* ------------------------------------------------------------------------
\* State: one call of process(obj) or of expand(value)
\* ------------------------------------------------------------------------

VARIABLES
  op,        \* the function called: "process" or "expand"
  heap,      \* the dictionaries alive, by identity; 0 is the argument obj
  order,     \* the order in which the dictionaries iterate their keys
  value,     \* the argument of expand
  orig,      \* the contents of obj when process was called
  pc,        \* "call", "loop" (lines 29-36), "done" or "raised"
  obj_list,  \* the identities in obj_list (line 28)
  k,         \* the position of the loop of line 29 in obj_list
  ret,       \* the string expand returned
  err        \* the exception raised, NoError if none

vars == << op, heap, order, value, orig, pc, obj_list, k, ret, err >>

EmptyObj == [prop \in Props |-> << >>]

Init ==
  /\ \/ /\ op = "process"
        /\ \E obj \in Records : heap = << obj >> /\ orig = obj
        /\ order \in Orders
        /\ value = << >>
     \/ /\ op = "expand"
        /\ heap = << EmptyObj >> /\ orig = EmptyObj
        /\ order = << "name", "address" >>
        /\ value \in Values
  /\ pc = "call"
  /\ obj_list = << >>
  /\ k = 0
  /\ ret = << >>
  /\ err = NoError

\* heap is a sequence: the dictionary of identity id is heap[id + 1].
Obj(id) == heap[id + 1]

\* What process holds once duplicate has returned or raised d.
Duplicated(d) ==
  IF d.err # NoError
  THEN /\ pc' = "raised" /\ err' = d.err
       /\ UNCHANGED << heap, obj_list, k >>
  ELSE /\ heap' = IF d.clone_lst = << >> THEN heap ELSE << Obj(0) >> \o d.clone_lst
       /\ obj_list' = IF d.clone_lst = << >> THEN << 0 >>
                      ELSE [j \in 1..Len(d.clone_lst) |-> j]
       /\ k' = 0
       /\ pc' = "loop"
       /\ err' = NoError

\* Line 28 with lines 322-326: obj_list = duplicate(obj). The clones are new
\* dictionaries; without any clone the list holds obj itself.
Duplicate ==
  /\ op = "process" /\ pc = "call"
  /\ Duplicated(duplicate(Obj(0), order))
  /\ UNCHANGED << op, order, value, orig, ret >>

\* The dictionary id after lines 30-36, with the exception they raised.
ExpandedObj(id, e) ==
  /\ heap' = [heap EXCEPT ![id + 1] = e.obj]
  /\ IF e.err # NoError
     THEN pc' = "raised" /\ err' = e.err /\ k' = k
     ELSE pc' = "loop" /\ err' = NoError /\ k' = k + 1

\* Lines 29-36 for obj_list[k]: every value is replaced by its expansion and
\* deleted when that is empty.
ExpandObj ==
  /\ pc = "loop" /\ k < Len(obj_list)
  /\ ExpandedObj(obj_list[k + 1], ExpandProps(Obj(obj_list[k + 1]), order, 1))
  /\ UNCHANGED << op, order, value, orig, obj_list, ret >>

\* Line 38
Return ==
  /\ pc = "loop" /\ k = Len(obj_list)
  /\ pc' = "done"
  /\ UNCHANGED << op, heap, order, value, orig, obj_list, k, ret, err >>

\* What the caller of expand gets.
Returned(e) ==
  IF e.err # NoError
  THEN pc' = "raised" /\ err' = e.err /\ ret' = ret
  ELSE pc' = "done" /\ err' = NoError /\ ret' = e.val

\* A call of expand(value), lines 40-46
Expand ==
  /\ op = "expand" /\ pc = "call"
  /\ Returned(expand(value))
  /\ UNCHANGED << op, heap, order, value, orig, obj_list, k >>

Next == Duplicate \/ ExpandObj \/ Return \/ Expand

Spec == Init /\ [][Next]_vars

\* ------------------------------------------------------------------------
\* Vocabulary of the properties
\* ------------------------------------------------------------------------

\* The positions << prop, n >> of the values of a record, n counted from 1.
Positions(obj) == UNION {{<< prop, n >> : n \in 1..Len(obj[prop])} : prop \in Props}

ValueAt(obj, pos) == obj[pos[1]][pos[2]]

HasDollar(v) == Find(v, << "$" >>) >= 0

\* The value holds a macro whose name begins with DUPLICATE.
HasDuplicateName(v) == Find(v, << "$" >> \o DUPLICATE_MACRO_NAME) >= 0

\* The value holds a macro-function named DUPLICATE.
HasDuplicateMacro(v) == Find(v, << "$" >> \o DUPLICATE_MACRO_NAME \o << "(" >>) >= 0

\* The values of the inputs that no scan or expansion accepts.
Malformed == {ValUnclosed, ValBadRange, ValEarlyClose}

\* Shapes whose prefix and suffix hold no macro and whose values hold no comma.
PlainShapes == {ShapeDup3, ShapeDup2}

\* Shapes with macros of another name in front of the DUPLICATE macro-function.
MacroShapes == {ShapeMacroThenDup}

\* Shapes with a value that holds a comma inside brackets.
RangeShapes == {ShapeDupRange}

Texts == {TextTwoExpands, TextOneExpand}

\* duplicate(obj) raised: process stops at line 28.
DuplicateRaised == op = "process" /\ pc = "raised" /\ obj_list = << >>

\* duplicate(obj) has just returned obj_list.
DuplicateReturned == op = "process" /\ pc = "loop" /\ k = 0

\* The record at index j, from 1, of obj_list.
Clone(j) == Obj(obj_list[j])

\* What a segment of a text has to become in the EXPAND pass.
RECURSIVE Substituted(_)
Substituted(segs) ==
  IF segs = << >> THEN << >>
  ELSE (IF Head(segs).kind = "expand"
        THEN expand_repl_func(Head(segs).text, << << "," >> >>).val
        ELSE Head(segs).text) \o Substituted(Tail(segs))

\* The value is empty or made of whitespace only.
Blank(v) == \A n \in 1..Len(v) : v[n] \in Whitespace

\* The expansions of the values of lst that are not blank, in order.
RECURSIVE ExpandedAndPruned(_)
ExpandedAndPruned(lst) ==
  IF lst = << >> THEN << >>
  ELSE (IF Blank(expand(Head(lst)).val) THEN << >> ELSE << expand(Head(lst)).val >>)
         \o ExpandedAndPruned(Tail(lst))

\* ------------------------------------------------------------------------
\* Properties
\* ------------------------------------------------------------------------

\* C1 (as claimed): for a record with two properties, each holding one value
\* made of one DUPLICATE macro-function between a literal prefix and suffix,
\* one with m values and the other with n < m, duplicate returns m clones in
\* either order of the properties, and every clone from index n on holds for
\* the n-way property the same string as the clone of index n-1.
C1_Broadcast ==
  \A pm \in Props, pn \in Props : \A big \in PlainShapes, small \in PlainShapes :
    ( /\ op = "process" /\ pm # pn
      /\ orig[pm] = << RenderShape(big) >>
      /\ orig[pn] = << RenderShape(small) >>
      /\ Len(small.values) < Len(big.values) )
    => /\ ~DuplicateRaised
       /\ DuplicateReturned =>
            /\ Len(obj_list) = Len(big.values)
            /\ \A j \in 1..Len(obj_list) :
                 j > Len(small.values) => Clone(j)[pn][1] = Clone(Len(small.values))[pn][1]

\* C2 (as claimed): process returns normally and the list of every property
\* is the list of the expansions of its values, the blank ones removed, in
\* order. Stated for the records of well-formed values that duplicate does
\* not clone, whose lists are those of the input.
C2_Pruning ==
  ( /\ op = "process"
    /\ \A pos \in Positions(orig) :
         ValueAt(orig, pos) \notin Malformed /\ ~HasDuplicateName(ValueAt(orig, pos)) )
  => /\ pc # "raised"
     /\ pc = "done" =>
          /\ obj_list = << 0 >>
          /\ \A prop \in Props : Obj(0)[prop] = ExpandedAndPruned(orig[prop])

\* The record holds no "$".
NoDollar(obj) == \A pos \in Positions(obj) : ~HasDollar(ValueAt(obj, pos))

\* The record holds no empty or whitespace-only value.
NoBlank(obj) == \A pos \in Positions(obj) : ~Blank(ValueAt(obj, pos))

\* C3 (as claimed): when no value holds a "$", process returns one record
\* whose properties and lists are those of the input before the call.
C3_Identity ==
  (op = "process" /\ pc = "done" /\ NoDollar(orig))
  => Len(obj_list) = 1 /\ Clone(1) = orig

\* C3 (amended): when no value holds a "$" and no value is empty or
\* whitespace-only, process does not raise and returns one record whose
\* properties and lists are those of the input before the call.
C3_IdentityNoBlank ==
  (op = "process" /\ NoDollar(orig) /\ NoBlank(orig))
  => /\ pc # "raised"
     /\ pc = "done" => Len(obj_list) = 1 /\ Clone(1) = orig

\* process has returned for a record of two values without "$" or blank.
C3_Witness ==
  /\ op = "process" /\ pc = "done" /\ NoDollar(orig) /\ NoBlank(orig)
  /\ orig["name"] # << >> /\ orig["address"] # << >>
  /\ Len(obj_list) = 1 /\ Clone(1) = orig

\* The other values of a record of C4: no macro whose name begins with
\* DUPLICATE, nothing the scanner rejects.
OtherValueOk(v) == v \notin Malformed /\ ~HasDuplicateName(v)

\* C4 (as claimed): when exactly one value holds exactly one DUPLICATE
\* macro-function with k values between a literal prefix p and suffix s,
\* duplicate returns k clones, clone j holding p + v_j + s at that position
\* and the values of the input everywhere else.
C4_Cardinality ==
  \A pos \in Positions(orig) : \A sh \in PlainShapes :
    ( /\ op = "process"
      /\ ValueAt(orig, pos) = RenderShape(sh)
      /\ \A other \in Positions(orig) \ {pos} : OtherValueOk(ValueAt(orig, other)) )
    => /\ ~DuplicateRaised
       /\ DuplicateReturned =>
            /\ Len(obj_list) = Len(sh.values)
            /\ \A j \in 1..Len(obj_list) :
                 Clone(j) = [orig EXCEPT ![pos[1]][pos[2]] =
                               sh.pfx \o sh.values[j] \o sh.sfx]

\* C5 (as claimed): the EXPAND pass returns, in order, every piece of text
\* and every other macro as it is and, for every EXPAND macro-function, what
\* the replace function returns for its argument.
C5_TextPreserved ==
  \A segs \in Texts :
    (op = "expand" /\ pc # "call" /\ value = RenderText(segs))
    => pc = "done" /\ ret = Substituted(segs)

\* C6 (as claimed): a macro-function whose name only begins with EXPAND or
\* DUPLICATE is copied as it is by the EXPAND pass and makes duplicate clone
\* nothing.
C6_ExactNames ==
  /\ (op = "expand" /\ pc # "call" /\ value = ValExpanded)
     => pc = "done" /\ ret = value
  /\ ( /\ DuplicateReturned
       /\ \A pos \in Positions(orig) : ~HasDuplicateMacro(ValueAt(orig, pos)) )
     => obj_list = << 0 >>

\* The record holds the value "$EXPAND(h[0-2" and nothing else with a "$".
OnlyUnclosed(obj) ==
  /\ \E pos \in Positions(obj) : ValueAt(obj, pos) = ValUnclosed
  /\ \A pos \in Positions(obj) :
       ValueAt(obj, pos) = ValUnclosed \/ ~HasDollar(ValueAt(obj, pos))

\* C7 (as claimed): process on a record whose value is "$EXPAND(h[0-2" fails
\* with InvalidRangeExpression.
C7_InvalidRange ==
  (op = "process" /\ pc # "call" /\ OnlyUnclosed(orig))
  => pc = "raised" /\ err = InvalidRangeExpression

\* C7 (amended): process on a record whose value is "$EXPAND(h[0-2" fails
\* with UnclosedArgumentGroup, the rejection of the scanner: the argument
\* never reaches the range expander.
C7_UnclosedArgumentGroup ==
  (op = "process" /\ pc # "call" /\ OnlyUnclosed(orig))
  => pc = "raised" /\ err = UnclosedArgumentGroup /\ DuplicateRaised

\* process has failed on such a record.
C7_Witness ==
  /\ op = "process" /\ pc = "raised" /\ err = UnclosedArgumentGroup
  /\ orig["name"] = << ValUnclosed >> /\ orig["address"] = << >>

\* C8 (as claimed): at any time of a call of process the input record holds
\* the values it held before the call, and no returned record is the input
\* record.
C8_Purity ==
  op = "process"
  => /\ Obj(0) = orig
     /\ pc = "done" => \A j \in 1..Len(obj_list) : obj_list[j] # 0

\* C9 (as claimed): when a value holds other macros in front of its
\* DUPLICATE macro-function, every clone holds at that position the value
\* with the DUPLICATE macro-function alone replaced by a literal value.
C9_OtherMacrosKept ==
  \A pos \in Positions(orig) : \A sh \in MacroShapes :
    ( /\ DuplicateReturned
      /\ ValueAt(orig, pos) = RenderShape(sh)
      /\ \A other \in Positions(orig) \ {pos} : ~HasDollar(ValueAt(orig, other)) )
    => \A j \in 1..Len(obj_list) :
         ValueAt(Clone(j), pos) = sh.pfx \o sh.values[Min(j, Len(sh.values))] \o sh.sfx

\* C10 (as claimed): the argument of a DUPLICATE macro-function is split on
\* the commas outside brackets and parentheses alone, so that the number of
\* clones is the number of its top-level values.
C10_TopLevelCommas ==
  \A pos \in Positions(orig) : \A sh \in RangeShapes :
    ( /\ DuplicateReturned
      /\ ValueAt(orig, pos) = RenderShape(sh)
      /\ \A other \in Positions(orig) \ {pos} : ~HasDollar(ValueAt(orig, other)) )
    => /\ Len(obj_list) = Len(sh.values)
       /\ \A j \in 1..Len(obj_list) :
            ValueAt(Clone(j), pos) = sh.pfx \o sh.values[j] \o sh.sfx

====
